---- MODULE Spec2Model ----
(***************************************************************************)
(* SWE-bench pipeline of inspect_ai (benchmarks/swe_bench):                *)
(*   - swebench_scorer.scorer       (swe_bench.py, lines 113-165)          *)
(*   - get_compose_file             (swe_bench.py, lines 72-101)           *)
(*   - build_docker_images          (build_docker_images.py, lines 11-37)  *)
(*   - get_eval_script, get_setup_script (swe_bench.py, lines 170-243)     *)
(* and value_to_float               (scorer/_metric.py, lines 115-166).    *)
(*                                                                         *)
(* Abstractions.  The text of the eval stdout is a record: the set of      *)
(* error strings that occur in it and what the repository's parser makes   *)
(* of it (an ordered test -> verdict mapping, unless the parser fails).    *)
(* A Python dict is a sequence of <<key, value>> pairs with distinct keys, *)
(* in insertion order.  Scores 0.0 and 1.0 are the integers 0 and 1.       *)
(***************************************************************************)
EXTENDS Integers, Sequences, FiniteSets, TLC

VARIABLES
    \* ---- swebench_scorer.scorer ----
    spc,            \* position of the scorer coroutine
    hung,           \* the sandbox command being awaited never terminates
    metadata,       \* state.metadata of the sample being scored
    execLog,        \* the commands handed to sandbox().exec, in order
    agent_patch,    \* stdout of GET_AGENT_PATCH
    eval_output,    \* stdout of the eval script
    parserCalled,   \* the repository's parser was looked up / invoked
    score,          \* the Score returned, or NoScore
    raised,         \* the exception that left the scorer, or "none"
    exits,          \* the exit statuses of the commands that returned
    \* ---- the image mapping, the images, the compose files ----
    file,           \* SAMPLE_TO_IMAGE_PATH on disk
    images,         \* the image names the docker daemon lists
    descriptors,    \* the names of the .yaml files in COMPOSE_FILE_DIR
    run,            \* the build_docker_images processes
    gcf,            \* the last call of get_compose_file and how it ended
    \* ---- a generated script and the shell that runs it ----
    sh,             \* the script, the shell's options and how far it got
    \* ---- the write step of the eval script ----
    wr,             \* the patch text, the command line, the file written
    \* ---- value_to_float ----
    vf              \* the configured values, the value given, the result

scorerVars == <<spc, hung, metadata, execLog, agent_patch, eval_output,
                parserCalled, score, raised, exits>>

storeVars == <<file, images, descriptors, run, gcf>>

shellVars == <<sh>>

pureVars == <<wr, vf>>

vars == <<scorerVars, storeVars, shellVars, pureVars>>

(***************************************************************************)
(* Bounds of the model                                                     *)
(***************************************************************************)
MaxParsed == 2      \* most entries of a parsed test -> verdict mapping
MaxSigs == 1        \* most distinct error strings in one stdout
MaxRows == 2        \* most instances of a dataset split

Tests == {"t1", "t2", "t3"}
Verdicts == {"PASSED", "FAILED", "SKIPPED"}
Patches == {"", "diff --git a/f b/f"}
\* exit statuses of a sandbox command: 0, and one other
ExitStatuses == {0, 1}

(***************************************************************************)
(* swebench.harness.constants, imported at swe_bench.py:23                 *)
(***************************************************************************)
APPLY_PATCH_FAIL == ">>>>> Patch Apply Failed"
RESET_FAILED == ">>>>> Reset Failed"
TESTS_ERROR == ">>>>> Tests Errored"
TESTS_TIMEOUT == ">>>>> Tests Timed Out"
FAILED_TO_RESET == "Failed to reset task environment"

\* the list of swe_bench.py:126-131 with its last element dropped
ErrorStringsWithoutReset ==
    {APPLY_PATCH_FAIL, RESET_FAILED, TESTS_ERROR, TESTS_TIMEOUT}

\* The list of swe_bench.py:126-131.
ErrorStrings ==
    {APPLY_PATCH_FAIL, RESET_FAILED, TESTS_ERROR, TESTS_TIMEOUT, FAILED_TO_RESET}

\* Every error string a stdout may hold (the harness's vocabulary).
AllSignatures ==
    {APPLY_PATCH_FAIL, RESET_FAILED, TESTS_ERROR, TESTS_TIMEOUT, FAILED_TO_RESET}

(***************************************************************************)
(* Inputs                                                                  *)
(***************************************************************************)
NoScore == [value |-> -1]

\* keys of a dict are distinct
DistinctKeys(s) == \A i, j \in 1..Len(s) : i # j => s[i][1] # s[j][1]

Keys(s) == {s[i][1] : i \in 1..Len(s)}

\* what a parser can return: an ordered test -> verdict mapping
ParsedResults ==
    {s \in UNION {[1..n -> Tests \X Verdicts] : n \in 0..MaxParsed} :
        DistinctKeys(s)}

SigSets == {S \in SUBSET AllSignatures : Cardinality(S) <= MaxSigs}

\* a stdout: the error strings in it, whether the parser can read it, and
\* the mapping the parser returns when it can
Stdouts ==
    [sigs : SigSets, parses : {TRUE}, tests : ParsedResults]
    \cup [sigs : SigSets, parses : {FALSE}, tests : {<<>>}]

RegisteredRepo == "django/django"
UnregisteredRepo == "acme/unknown"

\* MAP_REPO_TO_PARSER, imported at swe_bench.py:24
MAP_REPO_TO_PARSER == {RegisteredRepo}

\* the samples: every split of Tests into PASS_TO_PASS, FAIL_TO_PASS and
\* neither, for a repository with a parser; one sample of a repository
\* without
Samples ==
    {[repo |-> RegisteredRepo, PASS_TO_PASS |-> P, FAIL_TO_PASS |-> F] :
        <<P, F>> \in {pf \in (SUBSET Tests) \X (SUBSET Tests) :
                        pf[1] \cap pf[2] = {}}}
    \cup {[repo |-> UnregisteredRepo, PASS_TO_PASS |-> {"t1"},
           FAIL_TO_PASS |-> {"t2"}]}

NoSample == [repo |-> "", PASS_TO_PASS |-> {}, FAIL_TO_PASS |-> {}]
NoStdout == [sigs |-> {}, parses |-> TRUE, tests |-> <<>>]

(***************************************************************************)
(* swebench_scorer.scorer: the pure part                                   *)
(***************************************************************************)
\* swe_bench.py:124-132
ErrorStringSearch(stdout) == [x \in ErrorStrings |-> x \in stdout.sigs]

\* swe_bench.py:134
AnyErrorString(stdout) ==
    \E x \in ErrorStrings : ErrorStringSearch(stdout)[x]

\* swe_bench.py:149
HasPassed(v) == v = "PASSED"

\* swe_bench.py:148-151: the entries whose key is in PASS_TO_PASS
PassToPassResults(test_outputs, md) ==
    LET In(e) == e[1] \in md.PASS_TO_PASS
        sel == SelectSeq(test_outputs, In)
    IN  [i \in 1..Len(sel) |-> <<sel[i][1], HasPassed(sel[i][2])>>]

\* swe_bench.py:148-153: every other entry (the else branch)
FailToPassResults(test_outputs, md) ==
    LET Out(e) == ~(e[1] \in md.PASS_TO_PASS)
        sel == SelectSeq(test_outputs, Out)
    IN  [i \in 1..Len(sel) |-> <<sel[i][1], HasPassed(sel[i][2])>>]

\* swe_bench.py:156 without the sort: the parser's order is kept
SortedByValueUnsorted(results) == results

\* swe_bench.py:156: sorted(items, key=value) is stable and False < True
SortedByValue(results) ==
    LET IsFalse(e) == ~e[2]
        IsTrue(e) == e[2]
    IN  SelectSeq(results, IsFalse) \o SelectSeq(results, IsTrue)

\* all(d.values())
AllValues(results) == \A i \in 1..Len(results) : results[i][2]

\* swe_bench.py:160-163 with 0.0 where no test result was selected
ValueRequiringResults(p2p, f2p) ==
    IF p2p = <<>> /\ f2p = <<>> THEN 0
    ELSE IF AllValues(p2p) /\ AllValues(f2p) THEN 1 ELSE 0

\* swe_bench.py:160-163
Value(p2p, f2p) == IF AllValues(p2p) /\ AllValues(f2p) THEN 1 ELSE 0

\* swe_bench.py:136-137 with the explanation built as in line 158
ErrorScoreAsPartitions(stdout, patch) ==
    [value |-> 0,
     explanation |-> [kind |-> "partitions",
                      PASS_TO_PASS |-> <<>>,
                      FAIL_TO_PASS |-> <<>>],
     metadata |-> [model_patch |-> patch]]

\* swe_bench.py:136-137
ErrorScore(stdout, patch) ==
    [value |-> 0,
     explanation |-> [kind |-> "error_strings",
                      search |-> ErrorStringSearch(stdout),
                      stdout |-> stdout],
     metadata |-> [model_patch |-> patch]]

\* swe_bench.py:146-165
TestScore(test_outputs, md, patch) ==
    LET p2p == SortedByValue(PassToPassResults(test_outputs, md))
        f2p == SortedByValue(FailToPassResults(test_outputs, md))
    IN  [value |-> Value(p2p, f2p),
         explanation |-> [kind |-> "partitions",
                          PASS_TO_PASS |-> p2p,
                          FAIL_TO_PASS |-> f2p],
         metadata |-> [model_patch |-> patch]]

(***************************************************************************)
(* swebench_scorer.scorer: the coroutine                                   *)
(***************************************************************************)
ScorerInit ==
    /\ spc = "idle"
    /\ hung = FALSE
    /\ metadata = NoSample
    /\ execLog = <<>>
    /\ agent_patch = ""
    /\ eval_output = NoStdout
    /\ parserCalled = FALSE
    /\ score = NoScore
    /\ raised = "none"
    /\ exits = <<>>

\* the scorer is called on a sample; swe_bench.py:116 starts the first exec
ScorerCall ==
    /\ spc = "idle"
    /\ \E md \in Samples : metadata' = md
    /\ spc' = "create_model_patch"
    /\ execLog' = Append(execLog, "CREATE_MODEL_PATCH")
    /\ UNCHANGED <<hung, agent_patch, eval_output, parserCalled, score, raised>>
    /\ UNCHANGED exits
    /\ UNCHANGED <<storeVars, shellVars, pureVars>>

\* swe_bench.py:116 returns; swe_bench.py:117 starts
CreateModelPatchDone ==
    /\ spc = "create_model_patch"
    /\ ~hung
    /\ spc' = "get_agent_patch"
    /\ execLog' = Append(execLog, "GET_AGENT_PATCH")
    /\ UNCHANGED <<hung, metadata, agent_patch, eval_output, parserCalled,
                   score, raised>>
    /\ \E status \in ExitStatuses : exits' = Append(exits, status)
    /\ UNCHANGED <<storeVars, shellVars, pureVars>>

\* swe_bench.py:117 returns; swe_bench.py:120-121 start the eval script
GetAgentPatchDone ==
    /\ spc = "get_agent_patch"
    /\ ~hung
    /\ \E p \in Patches : agent_patch' = p
    /\ spc' = "eval_script"
    /\ execLog' = Append(execLog, "EVAL_SCRIPT")
    /\ UNCHANGED <<hung, metadata, eval_output, parserCalled, score, raised>>
    /\ \E status \in ExitStatuses : exits' = Append(exits, status)
    /\ UNCHANGED <<storeVars, shellVars, pureVars>>

\* swe_bench.py:121 with one more try after a status other than 0
EvalScriptDoneRetrying ==
    /\ spc = "eval_script"
    /\ ~hung
    /\ \E status \in ExitStatuses :
        /\ exits' = Append(exits, status)
        /\ IF status # 0 /\ Len(execLog) = 3
           THEN /\ execLog' = Append(execLog, "EVAL_SCRIPT")
                /\ UNCHANGED <<spc, eval_output>>
           ELSE /\ \E out \in Stdouts : eval_output' = out
                /\ spc' = "classify"
                /\ UNCHANGED execLog
    /\ UNCHANGED <<hung, metadata, agent_patch, parserCalled, score, raised>>
    /\ UNCHANGED <<storeVars, shellVars, pureVars>>

\* swe_bench.py:121 returns with the captured stdout
EvalScriptDone ==
    /\ spc = "eval_script"
    /\ ~hung
    /\ \E out \in Stdouts : eval_output' = out
    /\ spc' = "classify"
    /\ UNCHANGED <<hung, metadata, execLog, agent_patch, parserCalled, score,
                   raised>>
    /\ \E status \in ExitStatuses : exits' = Append(exits, status)
    /\ UNCHANGED <<storeVars, shellVars, pureVars>>

\* The command awaited never terminates.  Each exec of swe_bench.py:116-121
\* is awaited without a timeout and outside any cancel scope, so nothing
\* resumes the coroutine.
CommandHangs ==
    /\ spc \in {"create_model_patch", "get_agent_patch", "eval_script"}
    /\ ~hung
    /\ hung' = TRUE
    /\ UNCHANGED <<spc, metadata, execLog, agent_patch, eval_output,
                   parserCalled, score, raised>>
    /\ UNCHANGED exits
    /\ UNCHANGED <<storeVars, shellVars, pureVars>>

\* swe_bench.py:134-137, 165: an error string was found
ReturnErrorScore ==
    /\ spc = "classify"
    /\ AnyErrorString(eval_output)
    /\ score' = ErrorScore(eval_output, agent_patch)
    /\ spc' = "returned"
    /\ UNCHANGED <<hung, metadata, execLog, agent_patch, eval_output,
                   parserCalled, raised>>
    /\ UNCHANGED exits
    /\ UNCHANGED <<storeVars, shellVars, pureVars>>

\* swe_bench.py:143: MAP_REPO_TO_PARSER[repo] of a repo without a parser
ParserLookupRaises ==
    /\ spc = "classify"
    /\ ~AnyErrorString(eval_output)
    /\ metadata.repo \notin MAP_REPO_TO_PARSER
    /\ parserCalled' = TRUE
    /\ raised' = "KeyError"
    /\ spc' = "raised"
    /\ UNCHANGED <<hung, metadata, execLog, agent_patch, eval_output, score>>
    /\ UNCHANGED exits
    /\ UNCHANGED <<storeVars, shellVars, pureVars>>

\* swe_bench.py:144: the parser fails on the text
ParserRaises ==
    /\ spc = "classify"
    /\ ~AnyErrorString(eval_output)
    /\ metadata.repo \in MAP_REPO_TO_PARSER
    /\ ~eval_output.parses
    /\ parserCalled' = TRUE
    /\ raised' = "ParserError"
    /\ spc' = "raised"
    /\ UNCHANGED <<hung, metadata, execLog, agent_patch, eval_output, score>>
    /\ UNCHANGED exits
    /\ UNCHANGED <<storeVars, shellVars, pureVars>>

\* swe_bench.py:142-165: parse, partition, reduce
ReturnTestScore ==
    /\ spc = "classify"
    /\ ~AnyErrorString(eval_output)
    /\ metadata.repo \in MAP_REPO_TO_PARSER
    /\ eval_output.parses
    /\ parserCalled' = TRUE
    /\ score' = TestScore(eval_output.tests, metadata, agent_patch)
    /\ spc' = "returned"
    /\ UNCHANGED <<hung, metadata, execLog, agent_patch, eval_output, raised>>
    /\ UNCHANGED exits
    /\ UNCHANGED <<storeVars, shellVars, pureVars>>

ScorerNext ==
    \/ ScorerCall
    \/ CreateModelPatchDone
    \/ GetAgentPatchDone
    \/ EvalScriptDone
    \/ CommandHangs
    \/ ReturnErrorScore
    \/ ParserLookupRaises
    \/ ParserRaises
    \/ ReturnTestScore

(***************************************************************************)
(* The image mapping: SAMPLE_TO_IMAGE_PATH, a JSON object                  *)
(*   instance_id -> {environment_setup_commit -> image name}               *)
(* A dict is a function whose DOMAIN is its key set.                       *)
(***************************************************************************)
Instances == {"i1", "i2"}
Commits == {"c1", "c2"}
Images == {"imgA", "imgB"}
AllRuns == {"r1", "r2"}

EmptyDict == [k \in {} |-> k]

\* d[k] = v
Put(d, k, v) == [x \in DOMAIN d \cup {k} |-> IF x = k THEN v ELSE d[x]]

\* the file on disk: absent, holding a JSON object, or opened for writing
\* and not yet written (empty or a prefix of the text: not JSON)
AbsentFile == [state |-> "absent", data |-> EmptyDict]
TruncatedFile == [state |-> "truncated", data |-> EmptyDict]
JsonFile(d) == [state |-> "json", data |-> d]

\* the mapping holds image m under (i, c)
Maps(d, i, c, m) == i \in DOMAIN d /\ c \in DOMAIN d[i] /\ d[i][c] = m

\* the (instance, commit, image) triples of a mapping
Entries(d) == {<<i, c, d[i][c]>> : <<i, c>> \in
                  {ic \in Instances \X Commits :
                      ic[1] \in DOMAIN d /\ ic[2] \in DOMAIN d[ic[1]]}}

(***************************************************************************)
(* build_docker_images                                                     *)
(***************************************************************************)
\* one element of zip(test_specs, swebench_dataset)
Rows == [instance_id : Instances, environment_setup_commit : Commits,
         env_image_key : Images]

DistinctInstances(rows) ==
    \A a, b \in 1..Len(rows) :
        a # b => rows[a].instance_id # rows[b].instance_id

\* the splits over a set of rows: instance ids are unique in a dataset
Datasets(R) ==
    {rows \in UNION {[1..n -> R] : n \in 1..MaxRows} : DistinctInstances(rows)}

\* the two splits used where two build runs overlap
OverlapRows == {r \in Rows : r.environment_setup_commit = "c1"
                              /\ r.env_image_key = "imgA"}

IdleRun == [pc |-> "idle", rows |-> <<>>, idx |-> 1, mem |-> EmptyDict,
            loaded |-> EmptyDict, error |-> "none", at |-> "none"]

\* build_docker_images.py:29-34 with the entry of the instance replaced by
\* the new one whatever the mapping held
RecordEntryOverwriting(mem, row) ==
    [ok |-> TRUE,
     mem |-> Put(mem, row.instance_id,
                 Put(EmptyDict, row.environment_setup_commit,
                     row.env_image_key))]

\* build_docker_images.py:29-34, one iteration of the loop body after the
\* image assertion: the mapping afterwards, and whether the assertion of
\* line 32 held
RecordEntry(mem, row) ==
    LET i == row.instance_id
        c == row.environment_setup_commit
        m == row.env_image_key
    IN  IF i \notin DOMAIN mem
        THEN LET mem1 == Put(mem, i, EmptyDict)
             IN  IF c \in DOMAIN mem1[i]
                 THEN [ok |-> mem1[i][c] = m, mem |-> mem1]
                 ELSE [ok |-> TRUE, mem |-> Put(mem1, i, Put(mem1[i], c, m))]
        ELSE [ok |-> TRUE, mem |-> mem]

\* build_docker_images.py:16-19: the process starts and loads the split
RunStart(r, D) ==
    /\ run[r].pc = "idle"
    /\ \E rows \in D :
        run' = [run EXCEPT ![r] = [IdleRun EXCEPT !.pc = "build",
                                                  !.rows = rows]]
    /\ UNCHANGED <<file, images, descriptors, gcf>>
    /\ UNCHANGED <<scorerVars, shellVars, pureVars>>

\* build_docker_images.py:21: build_env_images builds the images of the
\* split; a build can fail without raising, so any part of them may appear
BuildEnvImages(r) ==
    /\ run[r].pc = "build"
    /\ \E built \in SUBSET {run[r].rows[j].env_image_key :
                                j \in 1..Len(run[r].rows)} :
        images' = images \cup built
    /\ run' = [run EXCEPT ![r].pc = "load"]
    /\ UNCHANGED <<file, descriptors, gcf>>
    /\ UNCHANGED <<scorerVars, shellVars, pureVars>>

\* build_docker_images.py:24: {} if the file is absent, else json.load
LoadMapping(r) ==
    /\ run[r].pc = "load"
    /\ run' = [run EXCEPT ![r] =
                  CASE file.state = "absent" ->
                          [@ EXCEPT !.pc = "loop", !.mem = EmptyDict,
                                    !.loaded = EmptyDict]
                    [] file.state = "json" ->
                          [@ EXCEPT !.pc = "loop", !.mem = file.data,
                                    !.loaded = file.data]
                    [] OTHER ->
                          [@ EXCEPT !.pc = "failed",
                                    !.error = "JSONDecodeError"]]
    /\ UNCHANGED <<file, images, descriptors, gcf>>
    /\ UNCHANGED <<scorerVars, shellVars, pureVars>>

\* build_docker_images.py:26-34 without the assertion of line 27: the
\* row is recorded whether or not docker lists its image
LoopIterationWithoutAssert(r) ==
    /\ run[r].pc = "loop"
    /\ run[r].idx <= Len(run[r].rows)
    /\ LET row == run[r].rows[run[r].idx]
           rec == RecordEntry(run[r].mem, row)
       IN  run' = [run EXCEPT ![r] =
                      IF ~rec.ok
                      THEN [@ EXCEPT !.pc = "failed", !.mem = rec.mem,
                                     !.error = "AssertionError: already mapped"]
                      ELSE [@ EXCEPT !.mem = rec.mem, !.idx = @ + 1]]
    /\ UNCHANGED <<file, images, descriptors, gcf>>
    /\ UNCHANGED <<scorerVars, shellVars, pureVars>>

\* build_docker_images.py:26-34: one iteration of the loop
LoopIteration(r) ==
    /\ run[r].pc = "loop"
    /\ run[r].idx <= Len(run[r].rows)
    /\ LET row == run[r].rows[run[r].idx]
           rec == RecordEntry(run[r].mem, row)
       IN  run' = [run EXCEPT ![r] =
                      IF row.env_image_key \notin images
                      THEN [@ EXCEPT !.pc = "failed",
                                     !.error = "AssertionError: not found"]
                      ELSE IF ~rec.ok
                      THEN [@ EXCEPT !.pc = "failed", !.mem = rec.mem,
                                     !.error = "AssertionError: already mapped"]
                      ELSE [@ EXCEPT !.mem = rec.mem, !.idx = @ + 1]]
    /\ UNCHANGED <<file, images, descriptors, gcf>>
    /\ UNCHANGED <<scorerVars, shellVars, pureVars>>

\* build_docker_images.py:37: open(SAMPLE_TO_IMAGE_PATH, "w+") truncates
DumpOpen(r) ==
    /\ run[r].pc = "loop"
    /\ run[r].idx > Len(run[r].rows)
    /\ file' = TruncatedFile
    /\ run' = [run EXCEPT ![r].pc = "dump"]
    /\ UNCHANGED <<images, descriptors, gcf>>
    /\ UNCHANGED <<scorerVars, shellVars, pureVars>>

\* build_docker_images.py:37: json.dump writes the text; the file is closed
DumpWrite(r) ==
    /\ run[r].pc = "dump"
    /\ file' = JsonFile(run[r].mem)
    /\ run' = [run EXCEPT ![r].pc = "done"]
    /\ UNCHANGED <<images, descriptors, gcf>>
    /\ UNCHANGED <<scorerVars, shellVars, pureVars>>

\* the process has ended; the script can be run again
RunExit(r) ==
    /\ run[r].pc \in {"done", "failed"}
    /\ run' = [run EXCEPT ![r] = IdleRun]
    /\ UNCHANGED <<file, images, descriptors, gcf>>
    /\ UNCHANGED <<scorerVars, shellVars, pureVars>>

\* the process is killed where it stands
Crash(r) ==
    /\ run[r].pc \in {"build", "load", "loop", "dump"}
    /\ run' = [run EXCEPT ![r].pc = "crashed", ![r].at = run[r].pc]
    /\ UNCHANGED <<file, images, descriptors, gcf>>
    /\ UNCHANGED <<scorerVars, shellVars, pureVars>>

\* an image is removed from the docker daemon (docker rmi, a prune, a new
\* host): what swe_bench.py:87-88 then no longer lists
ImageRemoved ==
    /\ \E m \in images : images' = images \ {m}
    /\ UNCHANGED <<file, descriptors, run, gcf>>
    /\ UNCHANGED <<scorerVars, shellVars, pureVars>>

(***************************************************************************)
(* get_compose_file                                                        *)
(***************************************************************************)
NoCall == [instance_id |-> "", environment_commit_id |-> "", image |-> "",
           outcome |-> "none", path |-> "", existed |-> FALSE,
           listed |-> FALSE, wrote |-> FALSE]

\* swe_bench.py:83: f"{COMPOSE_FILE_DIR}/{environment_commit_id}.yaml"
CachePath(environment_commit_id, environment_image_name) ==
    environment_commit_id

\* swe_bench.py:92: COMPOSE_FILE_DIR / f"{environment_image_name}.yaml"
ComposePath(environment_image_name) == environment_image_name

\* swe_bench.py:74-101 without the test of lines 87-89: the descriptor is
\* written whether or not docker lists the image
ComposeFileCallUnchecked(c, i) ==
    LET call == [NoCall EXCEPT !.instance_id = i, !.environment_commit_id = c]
    IN  IF file.state = "absent"
        THEN [call EXCEPT !.outcome = "ValueError: no mapping"]
        ELSE IF file.state # "json"
        THEN [call EXCEPT !.outcome = "JSONDecodeError"]
        ELSE IF ~(i \in DOMAIN file.data /\ c \in DOMAIN file.data[i])
        THEN [call EXCEPT !.outcome = "ValueError: no image for instance"]
        ELSE LET m == file.data[i][c]
             IN  [call EXCEPT !.image = m,
                              !.existed = ComposePath(m) \in descriptors,
                              !.outcome = "returned",
                              !.path = ComposePath(m),
                              !.listed = TRUE, !.wrote = TRUE]

\* swe_bench.py:74-101 with a default image name where lines 75 and 81
\* raise
ComposeFileCallDefaulting(c, i) ==
    LET call == [NoCall EXCEPT !.instance_id = i, !.environment_commit_id = c]
        m == IF file.state = "json" /\ i \in DOMAIN file.data
                /\ c \in DOMAIN file.data[i]
             THEN file.data[i][c] ELSE "imgA"
    IN  IF file.state = "truncated"
        THEN [call EXCEPT !.outcome = "JSONDecodeError"]
        ELSE [call EXCEPT !.image = m,
                          !.existed = ComposePath(m) \in descriptors,
                          !.outcome = "returned",
                          !.path = ComposePath(m),
                          !.listed = TRUE, !.wrote = TRUE]

\* swe_bench.py:74-101, the whole function: how the call ends
ComposeFileCall(c, i) ==
    LET call == [NoCall EXCEPT !.instance_id = i, !.environment_commit_id = c]
    IN  IF file.state = "absent"
        THEN [call EXCEPT !.outcome = "ValueError: no mapping"]
        ELSE IF file.state # "json"
        THEN [call EXCEPT !.outcome = "JSONDecodeError"]
        ELSE IF ~(i \in DOMAIN file.data /\ c \in DOMAIN file.data[i])
        THEN [call EXCEPT !.outcome = "ValueError: no image for instance"]
        ELSE LET m == file.data[i][c]
                 found == [call EXCEPT !.image = m,
                              !.existed = ComposePath(m) \in descriptors]
             IN  IF CachePath(c, m) \in descriptors
                 THEN [found EXCEPT !.outcome = "returned",
                                    !.path = CachePath(c, m)]
                 ELSE IF m \notin images
                 THEN [found EXCEPT !.outcome = "ValueError: image not found",
                                    !.listed = TRUE]
                 ELSE [found EXCEPT !.outcome = "returned",
                                    !.path = ComposePath(m),
                                    !.listed = TRUE, !.wrote = TRUE]

GetComposeFile ==
    /\ \E c \in Commits, i \in Instances :
        /\ gcf' = ComposeFileCall(c, i)
        /\ descriptors' = IF gcf'.wrote
                          THEN descriptors \cup {gcf'.path}
                          ELSE descriptors
    /\ UNCHANGED <<file, images, run>>
    /\ UNCHANGED <<scorerVars, shellVars, pureVars>>

StoreInit ==
    /\ file = AbsentFile
    /\ images = {}
    /\ descriptors = {}
    /\ run = [r \in AllRuns |-> IdleRun]
    /\ gcf = NoCall

(***************************************************************************)
(* get_eval_script and get_setup_script                                    *)
(*                                                                         *)
(* A script is the sequence of its lines; a line is a record of the        *)
(* command word and its arguments.  Empty lines are left out.  The test    *)
(* patch is a record of its text and of what re.findall and                *)
(* get_test_directives extract from it.                                    *)
(***************************************************************************)
MaxCmds == 1        \* most commands in eval_commands / pre_install

Line(cmd, args) == [cmd |-> cmd, args |-> args]

Comment == Line("#", <<>>)

RepoCmds == {"export LANG=C", "locale-gen"}

\* the command lists of a specification: eval_commands, pre_install
CmdLists == UNION {[1..n -> RepoCmds] : n \in 0..MaxCmds}

BaseCommits == {"b1", "b2"}

TestPatches ==
    {[text |-> "patch1", files |-> <<"tests/test_a.py">>,
      directives |-> <<"tests/test_a.py">>],
     [text |-> "patch2", files |-> <<"tests/test_a.py", "docs/a.rst">>,
      directives |-> <<"tests/test_a.py">>]}

\* MAP_REPO_VERSION_TO_SPECS[repo][version], imported at swe_bench.py:23
RepoSpecs ==
    [test_cmd : {"pytest -rA"}, eval_commands : CmdLists,
     pre_install : CmdLists, install : {"", "pip install -e ."}]

\* MAP_REPO_TO_INSTALL[repo], imported at swe_bench.py:23
GenericInstalls == {"pip install deps"}

\* "\n".join(commands): one line per command
Joined(commands) == [k \in 1..Len(commands) |-> Line(commands[k], <<>>)]

\* a line that may be empty
OptionalLine(text) == IF text = "" THEN <<>> ELSE <<Line(text, <<>>)>>

\* swe_bench.py:192-197 and 202-207: cd and activation of the environment
Activation(repo_directory, conda_env) ==
    <<Comment,
      Line("cd", <<repo_directory>>),
      Line("set", <<"-x">>),
      Line("source", <<"/opt/miniconda3/bin/activate">>),
      Line("conda", <<"activate", conda_env>>),
      Line("set", <<"+x">>)>>

\* swe_bench.py:209-215: checkout of the test files, the patch written,
\* checked and applied
PatchApplication(test_patch, base_commit) ==
    <<Comment,
      Line("git", <<"checkout", base_commit>> \o test_patch.files),
      Comment,
      Line("echo", <<test_patch.text, ">", "/tmp/test_patch.diff">>),
      Line("git", <<"apply", "--check", "/tmp/test_patch.diff">>),
      Line("git", <<"apply", "/tmp/test_patch.diff">>)>>

\* swe_bench.py:217-218
TestRun(test_command, test_files) ==
    <<Comment, Line(test_command, test_files)>>

\* swe_bench.py:189-190 with the options of the setup script
EvalHeaderErrexit ==
    <<Line("#!/bin/bash", <<>>), Line("set", <<"-euxo", "pipefail">>)>>

\* swe_bench.py:189-190
EvalHeader == <<Line("#!/bin/bash", <<>>), Line("set", <<"-uox", "pipefail">>)>>

\* swe_bench.py:170-220 with the test command before the patch is applied
get_eval_script_tests_first(test_patch, spec, base_commit) ==
    EvalHeader
    \o Activation("/testbed", "testbed")
    \o <<Comment>> \o Joined(spec.eval_commands)
    \o Activation("/testbed", "testbed")
    \o TestRun(spec.test_cmd, test_patch.directives)
    \o PatchApplication(test_patch, base_commit)

\* swe_bench.py:170-220
get_eval_script(test_patch, spec, base_commit) ==
    EvalHeader
    \o Activation("/testbed", "testbed")
    \o <<Comment>> \o Joined(spec.eval_commands)
    \o Activation("/testbed", "testbed")
    \o PatchApplication(test_patch, base_commit)
    \o TestRun(spec.test_cmd, test_patch.directives)

\* swe_bench.py:228-229
SetupHeader == <<Line("#!/bin/bash", <<>>), Line("set", <<"-euxo", "pipefail">>)>>

\* swe_bench.py:223-243 with lines 240 and 241 exchanged
get_setup_script_install_first(repo, generic_install, spec, base_commit) ==
    SetupHeader
    \o <<Comment,
         Line("git", <<"clone", "-o", "origin", repo, "/testbed/">>),
         Line("chmod", <<"-R", "777", "/testbed/">>),
         Line("cd", <<"/testbed/">>),
         Line("git", <<"reset", "--hard", base_commit>>),
         Line("git", <<"remote", "remove", "origin">>),
         Comment,
         Line(generic_install, <<>>)>>
    \o OptionalLine(spec.install)
    \o Joined(spec.pre_install)

\* swe_bench.py:223-243
get_setup_script(repo, generic_install, spec, base_commit) ==
    SetupHeader
    \o <<Comment,
         Line("git", <<"clone", "-o", "origin", repo, "/testbed/">>),
         Line("chmod", <<"-R", "777", "/testbed/">>),
         Line("cd", <<"/testbed/">>),
         Line("git", <<"reset", "--hard", base_commit>>),
         Line("git", <<"remote", "remove", "origin">>),
         Comment,
         Line(generic_install, <<>>)>>
    \o Joined(spec.pre_install)
    \o OptionalLine(spec.install)

(***************************************************************************)
(* bash -c <script>                                                        *)
(***************************************************************************)
\* the option letters of a `set` argument: "-euxo" switches e, u and x on
\* and takes the next word as an option name
OptionLetters(word) ==
    CASE word = "-uox" -> {"u", "x"}
      [] word = "-euxo" -> {"e", "u", "x"}
      [] word = "-x" -> {"x"}
      [] OTHER -> {}

NoInputs == [test_patch |-> "", spec |-> "", base_commit |-> "", repo |-> "",
             generic_install |-> ""]

IdleShell ==
    [kind |-> "none", inputs |-> NoInputs, script |-> <<>>, pc |-> 1,
     status |-> "idle", options |-> {}, ran |-> {}, failed |-> {},
     unbound |-> {}, check_failed |-> FALSE,
     stdout |-> NoStdout, stderr |-> {}]

\* lines that run no program
IsInert(line) == line.cmd \in {"#", "#!/bin/bash", "set"}

IsApplyCheck(line) ==
    line.cmd = "git" /\ Len(line.args) > 1 /\ line.args[1] = "apply"
    /\ line.args[2] = "--check"

IsApply(line) ==
    line.cmd = "git" /\ Len(line.args) > 0 /\ line.args[1] = "apply"
    /\ ~IsApplyCheck(line)

IsTestRun(line) == line.cmd = "pytest -rA"

\* lines that run other people's shell code, where an unset variable can be
\* expanded
RunsShellCode(line) ==
    line.cmd \in {"source", "conda"} \cup RepoCmds \cup GenericInstalls
                 \cup {"pip install -e ."}

ShellInit == sh = IdleShell

\* get_eval_script is called and the text handed to bash -c (swe_bench.py:
\* 120-121)
StartEvalScript ==
    /\ sh.status = "idle"
    /\ \E tp \in TestPatches, spec \in RepoSpecs, bc \in BaseCommits :
        /\ spec.pre_install = <<>>
        /\ spec.install = ""
        /\ sh' = [IdleShell EXCEPT
                    !.kind = "eval",
                    !.inputs = [test_patch |-> tp, spec |-> spec,
                                base_commit |-> bc, repo |-> "",
                                generic_install |-> ""],
                    !.script = get_eval_script(tp, spec, bc),
                    !.status = "running"]
    /\ UNCHANGED <<scorerVars, storeVars, pureVars>>

\* get_setup_script is called and the text run as the sample's setup
\* (swe_bench.py:58)
StartSetupScript ==
    /\ sh.status = "idle"
    /\ \E spec \in RepoSpecs, bc \in BaseCommits, g \in GenericInstalls :
        /\ spec.eval_commands = <<>>
        /\ sh' = [IdleShell EXCEPT
                    !.kind = "setup",
                    !.inputs = [test_patch |-> "", spec |-> spec,
                                base_commit |-> bc, repo |-> RegisteredRepo,
                                generic_install |-> g],
                    !.script = get_setup_script(RegisteredRepo, g, spec, bc),
                    !.status = "running"]
    /\ UNCHANGED <<scorerVars, storeVars, pureVars>>

\* after the line at sh.pc: the next line, or the end of the script
Advance(s) ==
    IF s.pc = Len(s.script)
    THEN [s EXCEPT !.pc = @ + 1, !.status = "finished"]
    ELSE [s EXCEPT !.pc = @ + 1]

\* a comment, the shebang or a `set` line: the options are updated
InertLine ==
    /\ sh.status = "running"
    /\ IsInert(sh.script[sh.pc])
    /\ LET line == sh.script[sh.pc]
           on == IF line.cmd = "set" /\ line.args[1] # "+x"
                 THEN OptionLetters(line.args[1]) ELSE {}
           off == IF line.cmd = "set" /\ line.args[1] = "+x"
                  THEN {"x"} ELSE {}
       IN  sh' = Advance([sh EXCEPT !.options = (@ \cup on) \ off])
    /\ UNCHANGED <<scorerVars, storeVars, pureVars>>

\* the command of the line exits with status 0.  git apply succeeds only
\* where git apply --check did; the test command's output goes to stdout.
CommandSucceeds ==
    /\ sh.status = "running"
    /\ ~IsInert(sh.script[sh.pc])
    /\ IsApply(sh.script[sh.pc]) => ~sh.check_failed
    /\ \E sigs \in SigSets :
        /\ ~IsTestRun(sh.script[sh.pc]) => sigs = {}
        /\ sh' = Advance([sh EXCEPT !.ran = @ \cup {sh.pc},
                                    !.stdout.sigs = @ \cup sigs])
    /\ UNCHANGED <<scorerVars, storeVars, pureVars>>

\* the command of the line exits with a status other than 0: its message
\* goes to stderr; the shell stops only under errexit (set -e)
CommandFails ==
    /\ sh.status = "running"
    /\ ~IsInert(sh.script[sh.pc])
    /\ IsApply(sh.script[sh.pc]) => sh.check_failed
    /\ \E sigs \in SigSets :
        /\ ~IsTestRun(sh.script[sh.pc]) => sigs = {}
        /\ LET after == [sh EXCEPT
                            !.ran = @ \cup {sh.pc},
                            !.failed = @ \cup {sh.pc},
                            !.check_failed =
                                @ \/ IsApplyCheck(sh.script[sh.pc]),
                            !.stderr = @ \cup {sh.script[sh.pc].cmd},
                            !.stdout.sigs = @ \cup sigs]
           IN  sh' = IF "e" \in sh.options
                     THEN [after EXCEPT !.status = "exited"]
                     ELSE Advance(after)
    /\ UNCHANGED <<scorerVars, storeVars, pureVars>>

\* the line expands a variable that is not set: under nounset (set -u) a
\* non-interactive shell writes a message to stderr and exits
UnsetVariable ==
    /\ sh.status = "running"
    /\ RunsShellCode(sh.script[sh.pc])
    /\ "u" \in sh.options
    /\ sh' = [sh EXCEPT !.ran = @ \cup {sh.pc},
                        !.unbound = @ \cup {sh.pc},
                        !.stderr = @ \cup {"unbound variable"},
                        !.status = "exited"]
    /\ UNCHANGED <<scorerVars, storeVars, pureVars>>

ShellNext ==
    \/ StartEvalScript
    \/ StartSetupScript
    \/ InertLine
    \/ CommandSucceeds
    \/ CommandFails
    \/ UnsetVariable

(***************************************************************************)
(* The write step of the eval script (swe_bench.py:213):                   *)
(*     echo {shlex.quote(test_patch)} > /tmp/test_patch.diff               *)
(*                                                                         *)
(* A text is a sequence of characters.  shlex.quote is the function of     *)
(* Python's shlex module; the command line is split into words the way     *)
(* bash does it, and echo is the builtin of bash (xpg_echo off).           *)
(***************************************************************************)
MaxText == 3        \* most characters of a test patch text

SQ == "'"
DQ == "\""
BS == "\\"
NL == "\n"
SP == " "

Chars == {"a", "n", "-", SQ, DQ, BS, NL, SP}

Texts == UNION {[1..n -> Chars] : n \in 0..MaxText}

\* shlex: _find_unsafe = re.compile(r'[^\w@%+=:,./-]', re.ASCII).search
SafeChars == {"a", "n", "-"}

\* s.replace("'", "'\"'\"'")
RECURSIVE ReplaceQuotes(_)
ReplaceQuotes(s) ==
    IF s = <<>> THEN <<>>
    ELSE (IF Head(s) = SQ THEN <<SQ, DQ, SQ, DQ, SQ>> ELSE <<Head(s)>>)
         \o ReplaceQuotes(Tail(s))

\* shlex.quote with the single quotes of the text left as they are
shlex_quote_unescaped(s) ==
    IF s = <<>> THEN <<SQ, SQ>>
    ELSE IF \A k \in 1..Len(s) : s[k] \in SafeChars THEN s
    ELSE <<SQ>> \o s \o <<SQ>>

\* shlex.quote(s), called at swe_bench.py:213
shlex_quote(s) ==
    IF s = <<>> THEN <<SQ, SQ>>
    ELSE IF \A k \in 1..Len(s) : s[k] \in SafeChars THEN s
    ELSE <<SQ>> \o ReplaceQuotes(s) \o <<SQ>>

\* swe_bench.py:213: the characters between "echo " and " > /tmp/..."
WriteCommand(test_patch) == shlex_quote(test_patch)

\* the characters a backslash escapes inside double quotes ($ and ` are not
\* in Chars)
EscapedInDouble == {DQ, BS, NL}

\* bash splitting the arguments of one simple command into words.  mode is
\* "plain", "single" or "double"; open tells that a word has begun; the
\* result is the words and whether the command ended inside a quote.
RECURSIVE SplitWords(_, _, _, _, _)
SplitWords(s, mode, word, open, words) ==
    IF s = <<>>
    THEN [words |-> IF open THEN Append(words, word) ELSE words,
          unterminated |-> mode # "plain"]
    ELSE LET c == Head(s)
             rest == Tail(s)
         IN  CASE mode = "single" ->
                    IF c = SQ
                    THEN SplitWords(rest, "plain", word, TRUE, words)
                    ELSE SplitWords(rest, "single", Append(word, c), TRUE,
                                    words)
               [] mode = "double" ->
                    IF c = DQ
                    THEN SplitWords(rest, "plain", word, TRUE, words)
                    ELSE IF c = BS /\ rest # <<>>
                            /\ Head(rest) \in EscapedInDouble
                    THEN SplitWords(Tail(rest), "double",
                                    IF Head(rest) = NL THEN word
                                    ELSE Append(word, Head(rest)),
                                    TRUE, words)
                    ELSE SplitWords(rest, "double", Append(word, c), TRUE,
                                    words)
               [] OTHER ->
                    IF c = SQ
                    THEN SplitWords(rest, "single", word, TRUE, words)
                    ELSE IF c = DQ
                    THEN SplitWords(rest, "double", word, TRUE, words)
                    ELSE IF c = BS
                    THEN IF rest = <<>>
                         THEN SplitWords(rest, "plain", Append(word, c),
                                         TRUE, words)
                         ELSE IF Head(rest) = NL
                         THEN SplitWords(Tail(rest), "plain", word, open,
                                         words)
                         ELSE SplitWords(Tail(rest), "plain",
                                         Append(word, Head(rest)), TRUE,
                                         words)
                    ELSE IF c = SP
                    THEN SplitWords(rest, "plain", <<>>, FALSE,
                                    IF open THEN Append(words, word)
                                    ELSE words)
                    ELSE IF c = NL
                    THEN [words |-> IF open THEN Append(words, word)
                                    ELSE words,
                          unterminated |-> FALSE]
                    ELSE SplitWords(rest, "plain", Append(word, c), TRUE,
                                    words)

\* the words bash hands to echo
EchoArguments(command) == SplitWords(command, "plain", <<>>, FALSE, <<>>)

\* a word that the echo builtin takes as options: - and then only n, e, E
IsEchoOption(word) ==
    /\ Len(word) > 1
    /\ word[1] = "-"
    /\ \A k \in 2..Len(word) : word[k] \in {"n", "e", "E"}

RECURSIVE JoinWords(_)
JoinWords(words) ==
    IF words = <<>> THEN <<>>
    ELSE IF Len(words) = 1 THEN words[1]
    ELSE words[1] \o <<SP>> \o JoinWords(Tail(words))

\* the leading words that echo takes as options
RECURSIVE OptionCount(_)
OptionCount(words) ==
    IF words # <<>> /\ IsEchoOption(Head(words))
    THEN 1 + OptionCount(Tail(words))
    ELSE 0

\* what the echo builtin writes: the arguments after the options, joined by
\* spaces, and a newline unless an option holds n
EchoOutput(words) ==
    LET k == OptionCount(words)
        quiet == \E j \in 1..k : \E i \in 2..Len(words[j]) :
                     words[j][i] = "n"
    IN  JoinWords(SubSeq(words, k + 1, Len(words)))
        \o (IF quiet THEN <<>> ELSE <<NL>>)

IdleWrite == [pc |-> "idle", test_patch |-> <<>>, command |-> <<>>,
              words |-> <<>>, unterminated |-> FALSE, content |-> <<>>]

WriteInit == wr = IdleWrite

\* get_eval_script formats line 213 for the test patch of the sample
FormatWriteStep ==
    /\ wr.pc = "idle"
    /\ \E t \in Texts :
        wr' = [IdleWrite EXCEPT !.pc = "formatted",
                                !.test_patch = t,
                                !.command = WriteCommand(t)]
    /\ UNCHANGED <<scorerVars, storeVars, shellVars, vf>>

\* bash reads the line and splits it into the words of the command
ShellSplitsLine ==
    /\ wr.pc = "formatted"
    /\ LET split == EchoArguments(wr.command)
       IN  wr' = [wr EXCEPT !.pc = "split",
                            !.words = split.words,
                            !.unterminated = split.unterminated]
    /\ UNCHANGED <<scorerVars, storeVars, shellVars, vf>>

\* echo runs with its stdout redirected to /tmp/test_patch.diff
EchoWritesFile ==
    /\ wr.pc = "split"
    /\ wr' = [wr EXCEPT !.pc = "written",
                        !.content = EchoOutput(wr.words)]
    /\ UNCHANGED <<scorerVars, storeVars, shellVars, vf>>

WriteNext == FormatWriteStep \/ ShellSplitsLine \/ EchoWritesFile

(***************************************************************************)
(* value_to_float (scorer/_metric.py:115-166)                              *)
(*                                                                         *)
(* A Python value is a record of its type, its text (str; the contents of  *)
(* a list or dict) and its number counted in halves (int, float, bool), so *)
(* that 0.5 is 1 and 1.0 is 2.                                             *)
(***************************************************************************)
PyStr(text) == [type |-> "str", text |-> text, halves |-> 0]
PyInt(n) == [type |-> "int", text |-> "", halves |-> 2 * n]
PyFloat(halves) == [type |-> "float", text |-> "", halves |-> halves]
PyBool(b) == [type |-> "bool", text |-> "", halves |-> IF b THEN 2 ELSE 0]
PyList(contents) == [type |-> "list", text |-> contents, halves |-> 0]
PyDict(contents) == [type |-> "dict", text |-> contents, halves |-> 0]

\* _metric.py:25-34
CORRECT == PyStr("C")
INCORRECT == PyStr("I")
PARTIAL == PyStr("P")
NOANSWER == PyStr("N")

\* the values a caller configures: the defaults, other letters, a number, a
\* bool, a list
ConfigValues == {CORRECT, INCORRECT, PARTIAL, NOANSWER, PyStr("X"),
                 PyInt(2), PyBool(TRUE), PyList("a")}

Configs == [correct : ConfigValues, incorrect : ConfigValues,
            partial : ConfigValues, noanswer : ConfigValues]

\* the values of a Score (_metric.py:38-42)
ScoreValues ==
    ConfigValues \cup
    {PyStr("Yes"), PyStr("true"), PyStr("no"), PyStr("FALSE"), PyStr("0.5"), PyStr("2"),
     PyStr("1.2.3"), PyStr("abc"), PyInt(0), PyInt(1), PyFloat(1), PyBool(FALSE),
     PyList("b"), PyDict("a")}

NumericTypes == {"int", "float", "bool"}

\* Python's ==: numbers and bools compare by number, the other types by
\* type and contents
PyEq(a, b) ==
    IF a.type \in NumericTypes /\ b.type \in NumericTypes
    THEN a.halves = b.halves
    ELSE a.type = b.type /\ a.text = b.text

\* str.lower() on the texts of ScoreValues
Lower(text) ==
    CASE text = "Yes" -> "yes"
      [] text = "FALSE" -> "false"
      [] text = "C" -> "c"
      [] text = "I" -> "i"
      [] text = "P" -> "p"
      [] text = "N" -> "n"
      [] text = "X" -> "x"
      [] OTHER -> text

\* value.replace(".", "").isnumeric() on the texts of ScoreValues
IsNumericWithoutDots(text) == text \in {"0.5", "2", "1.2.3"}

\* float(text): the halves, or a ValueError
ParseFloat(text) ==
    CASE text = "0.5" -> [raised |-> "none", halves |-> 1]
      [] text = "2" -> [raised |-> "none", halves |-> 4]
      [] OTHER -> [raised |-> "ValueError", halves |-> 0]

Returned(halves) == [raised |-> "none", halves |-> halves, warned |-> FALSE]

\* _metric.py:163-165
Unconverted == [raised |-> "none", halves |-> 0, warned |-> TRUE]

\* _metric.py:144-165
to_float(config, value) ==
    IF value.type \in NumericTypes THEN Returned(value.halves)
    ELSE IF PyEq(value, config.correct) THEN Returned(2)
    ELSE IF PyEq(value, config.partial) THEN Returned(1)
    ELSE IF PyEq(value, config.incorrect) \/ PyEq(value, config.noanswer)
    THEN Returned(0)
    ELSE IF value.type = "str"
    THEN LET lowered == Lower(value.text)
         IN  IF lowered \in {"yes", "true"} THEN Returned(2)
             ELSE IF lowered \in {"no", "false"} THEN Returned(0)
             ELSE IF IsNumericWithoutDots(lowered)
             THEN ParseFloat(lowered) @@ [warned |-> FALSE]
             ELSE Unconverted
    ELSE Unconverted

NoConfig == [correct |-> CORRECT, incorrect |-> INCORRECT,
             partial |-> PARTIAL, noanswer |-> NOANSWER]

IdleConversion == [pc |-> "idle", config |-> NoConfig, value |-> PyStr(""),
                   result |-> Unconverted]

ValueInit == vf = IdleConversion

\* value_to_float(correct, incorrect, partial, noanswer) returns to_float
ValueToFloatCall ==
    /\ vf.pc = "idle"
    /\ \E config \in Configs :
        vf' = [IdleConversion EXCEPT !.pc = "configured", !.config = config]
    /\ UNCHANGED <<scorerVars, storeVars, shellVars, wr>>

\* the function returned is applied to the value of a Score
ToFloatCall ==
    /\ vf.pc = "configured"
    /\ \E value \in ScoreValues :
        vf' = [vf EXCEPT !.pc = "converted",
                         !.value = value,
                         !.result = to_float(vf.config, value)]
    /\ UNCHANGED <<scorerVars, storeVars, shellVars, wr>>

ValueNext == ValueToFloatCall \/ ToFloatCall

(***************************************************************************)
(* Specifications                                                          *)
(***************************************************************************)
Init == ScorerInit /\ StoreInit /\ ShellInit /\ WriteInit /\ ValueInit

\* value_to_float and the function it returns
ValueSpec == Init /\ [][ValueNext]_vars

\* the write step of the eval script
WriteSpec == Init /\ [][WriteNext]_vars

\* one scorer invocation
ScorerSpec == Init /\ [][ScorerNext]_vars

\* the event loop runs a coroutine that can take a step
FairScorerSpec == ScorerSpec /\ WF_vars(ScorerNext)

\* build runs one after the other, and get_compose_file
BuildRun(r) ==
    \/ RunStart(r, Datasets(Rows))
    \/ BuildEnvImages(r)
    \/ LoadMapping(r)
    \/ LoopIteration(r)
    \/ DumpOpen(r)
    \/ DumpWrite(r)
    \/ RunExit(r)

StoreNext == BuildRun("r1") \/ GetComposeFile \/ ImageRemoved

StoreSpec == Init /\ [][StoreNext]_vars

\* a generated script run by bash
ShellSpec == Init /\ [][ShellNext]_vars

\* two build runs that may overlap, either of which may be killed
OverlapRun(r) ==
    \/ RunStart(r, Datasets(OverlapRows))
    \/ BuildEnvImages(r)
    \/ LoadMapping(r)
    \/ LoopIteration(r)
    \/ DumpOpen(r)
    \/ DumpWrite(r)
    \/ Crash(r)

OverlapNext == \E r \in AllRuns : OverlapRun(r)

OverlapSpec == Init /\ [][OverlapNext]_vars

(***************************************************************************)
(* Properties of the scorer                                                *)
(***************************************************************************)
\* the five infrastructure-failure signatures, as the specification lists
\* them
FailureSignatures ==
    {">>>>> Patch Apply Failed", ">>>>> Reset Failed", ">>>>> Tests Errored",
     ">>>>> Tests Timed Out", "Failed to reset task environment"}

HasSignature == eval_output.sigs \cap FailureSignatures # {}

\* the scorer has the stdout of the eval script in hand
Classifying == spc \in {"classify", "returned", "raised"}

\* test t has verdict PASSED in the parsed results
PassedIn(tests, t) ==
    \E k \in 1..Len(tests) : tests[k][1] = t /\ tests[k][2] = "PASSED"

\* C1: on the clean path the score is 1.0 exactly when every test of
\* PASS_TO_PASS and of FAIL_TO_PASS is PASSED in the parsed results (a test
\* absent from them is not PASSED), and 0.0 otherwise.
C1_ScoreIffAllPassed ==
    (spc = "returned" /\ ~HasSignature) =>
        /\ score.value \in {0, 1}
        /\ score.value = 1 <=>
              \A t \in metadata.PASS_TO_PASS \cup metadata.FAIL_TO_PASS :
                  PassedIn(eval_output.tests, t)

\* C2: once the stdout holds one of the five signatures the parser is never
\* looked up or called, nothing is raised, and the Score returned is 0.0;
\* the parser is reached only for a stdout without any signature.
C2_SignaturePrecedence ==
    /\ (Classifying /\ HasSignature) =>
          /\ ~parserCalled
          /\ spc # "raised"
          /\ spc = "returned" => score.value = 0
    /\ parserCalled => ~HasSignature

\* C2's case: a stdout with a signature whose test results, had they been
\* parsed, are all PASSED for a sample with tests in both sets
C2_Witness ==
    /\ spc = "returned"
    /\ HasSignature
    /\ score.value = 0
    /\ metadata.PASS_TO_PASS # {}
    /\ metadata.FAIL_TO_PASS # {}
    /\ \A t \in metadata.PASS_TO_PASS \cup metadata.FAIL_TO_PASS :
          PassedIn(eval_output.tests, t)

\* the parsed results without the tests that are in neither set
WithoutStrays(tests, md) ==
    LET Listed(e) == e[1] \in md.PASS_TO_PASS \cup md.FAIL_TO_PASS
    IN  SelectSeq(tests, Listed)

\* C6: a parsed test in neither PASS_TO_PASS nor FAIL_TO_PASS is in neither
\* partition of the explanation, and the score is the one the parsed results
\* give without it.
C6_StrayTestIgnored ==
    (spc = "returned" /\ score.explanation.kind = "partitions") =>
        /\ Keys(score.explanation.PASS_TO_PASS) \subseteq metadata.PASS_TO_PASS
        /\ Keys(score.explanation.FAIL_TO_PASS) \subseteq metadata.FAIL_TO_PASS
        /\ score.value =
              TestScore(WithoutStrays(eval_output.tests, metadata), metadata,
                        agent_patch).value

\* the parser cannot make sense of the stdout, or there is none for the repo
ParseFails ==
    \/ metadata.repo \notin {"django/django"}
    \/ ~eval_output.parses

\* C9: when the parser fails or is missing, the scorer does not raise: it
\* returns a Score of 0.0 whose explanation is not the partition form.
C9_ParseFailureReturnsScore ==
    (spc \in {"returned", "raised"} /\ ~HasSignature /\ ParseFails) =>
        /\ spc = "returned"
        /\ raised = "none"
        /\ score.value = 0
        /\ score.explanation.kind # "partitions"

\* C10: a test command that never terminates is cancelled, and the scorer
\* returns 0.0 with the TESTS_TIMEOUT signature reported.
C10_HangBecomesTimeout ==
    (spc = "eval_script" /\ hung) ~>
        (/\ spc = "returned"
         /\ score.value = 0
         /\ score.explanation.kind = "error_strings"
         /\ score.explanation.search[">>>>> Tests Timed Out"])

(***************************************************************************)
(* Properties of the image mapping and of the compose files                *)
(***************************************************************************)
\* the mapping holds the key of the row under another image name
Conflicts(d, row) ==
    /\ row.instance_id \in DOMAIN d
    /\ row.environment_setup_commit \in DOMAIN d[row.instance_id]
    /\ d[row.instance_id][row.environment_setup_commit] # row.env_image_key

\* C3: a build run that has processed a row whose key the persisted mapping
\* maps to another image name has stopped with the consistency error.
C3_ConflictRaises ==
    \A r \in AllRuns : \A j \in 1..Len(run[r].rows) :
        (j < run[r].idx /\ Conflicts(run[r].loaded, run[r].rows[j])) =>
            /\ run[r].pc = "failed"
            /\ run[r].error = "AssertionError: already mapped"

\* C4: after a build run has completed, get_compose_file resolves every
\* (instance, commit) the run processed to the image name of the split,
\* whatever the file held before under other keys (nothing, other
\* instances, the same instance under another commit).
C4_RecordThenResolve ==
    \A r \in AllRuns :
        run[r].pc = "done" =>
            \A j \in 1..Len(run[r].rows) :
                ~Conflicts(run[r].loaded, run[r].rows[j]) =>
                    ComposeFileCall(run[r].rows[j].environment_setup_commit,
                                    run[r].rows[j].instance_id).image
                        = run[r].rows[j].env_image_key

\* C5: a call that resolves to an image name whose descriptor is on disk
\* returns that descriptor, lists no images and writes nothing.
C5_DescriptorCached ==
    (gcf.outcome # "none" /\ gcf.existed) =>
        /\ gcf.outcome = "returned"
        /\ gcf.path = gcf.image
        /\ ~gcf.listed
        /\ ~gcf.wrote

\* C7: when both build runs have finished, the file holds every entry of
\* both runs' mappings for the rows they processed.
C7_NoLostUpdates ==
    (\A r \in AllRuns : run[r].pc = "done") =>
        /\ file.state = "json"
        /\ \A r \in AllRuns : \A j \in 1..Len(run[r].rows) :
              LET row == run[r].rows[j]
              IN  Maps(run[r].mem, row.instance_id,
                       row.environment_setup_commit, row.env_image_key)
                  => Maps(file.data, row.instance_id,
                          row.environment_setup_commit, row.env_image_key)

\* C8: after a build run was killed while writing the file, every entry the
\* file held when the run loaded it can still be read from the file.
C8_CrashKeepsMappings ==
    \A r \in AllRuns :
        (run[r].pc = "crashed" /\ run[r].at = "dump") =>
            \A e \in Entries(run[r].loaded) :
                file.state = "json" /\ e \in Entries(file.data)

\* the image of the row is listed by docker
ImageBuilt(row) == row.env_image_key \in images

\* C11: a build run that meets an instance whose image was not built does
\* not stop there: it goes through the whole split, and when it has ended
\* the file maps every other instance of the split whose image exists.
C11_MissingImageIsolated ==
    \A r \in AllRuns :
        (\E j \in 1..Len(run[r].rows) :
            j <= run[r].idx /\ ~ImageBuilt(run[r].rows[j])
            /\ run[r].pc \in {"failed", "done"}) =>
            /\ run[r].pc = "done"
            /\ \A k \in 1..Len(run[r].rows) :
                  (ImageBuilt(run[r].rows[k])
                   /\ ~Conflicts(run[r].loaded, run[r].rows[k])) =>
                      Maps(file.data, run[r].rows[k].instance_id,
                           run[r].rows[k].environment_setup_commit,
                           run[r].rows[k].env_image_key)

\* the errors whose message tells to run build_docker_images.py
\* (swe_bench.py:75, 81, 89)
RemediationErrors ==
    {"ValueError: no mapping", "ValueError: no image for instance",
     "ValueError: image not found"}

\* C13: a call that resolves to an image name, finds no cached descriptor
\* and whose image docker does not list ends in the error that tells to run
\* the build step, returns no path, and leaves the descriptor files as they
\* were.
C13_MissingImageRaises ==
    [][(/\ GetComposeFile
        /\ gcf'.image # ""
        /\ gcf'.environment_commit_id \notin descriptors
        /\ gcf'.image \notin images)
       => (/\ gcf'.outcome = "ValueError: image not found"
           /\ gcf'.outcome \in RemediationErrors
           /\ gcf'.path = ""
           /\ ~gcf'.wrote
           /\ descriptors' = descriptors)]_vars

\* C13's case: the last call resolved to an image that docker no longer
\* lists and raised
C13_Witness ==
    /\ gcf.image # ""
    /\ gcf.image \notin images
    /\ gcf.outcome = "ValueError: image not found"
    /\ ComposePath(gcf.image) \notin descriptors

\* the file holds no image name under (i, c)
NoEntry(i, c) ==
    \/ file.state = "absent"
    \/ /\ file.state = "json"
       /\ ~(i \in DOMAIN file.data /\ c \in DOMAIN file.data[i])

\* C14: a call for a key that the file does not hold, or made while there
\* is no file, ends in an error that tells to run the build step; it
\* returns no path, looks at no descriptor and at no image, and writes
\* nothing.
C14_NoSilentDefault ==
    [][(/\ GetComposeFile
        /\ NoEntry(gcf'.instance_id, gcf'.environment_commit_id))
       => (/\ gcf'.outcome \in {"ValueError: no mapping",
                                "ValueError: no image for instance"}
           /\ gcf'.outcome \in RemediationErrors
           /\ gcf'.image = ""
           /\ gcf'.path = ""
           /\ ~gcf'.existed
           /\ ~gcf'.listed
           /\ ~gcf'.wrote
           /\ descriptors' = descriptors)]_vars

\* C14's case: the file exists, holds other keys, and the last call asked
\* for a key it does not hold
C14_Witness ==
    /\ file.state = "json"
    /\ file.data # EmptyDict
    /\ gcf.outcome = "ValueError: no image for instance"
    /\ NoEntry(gcf.instance_id, gcf.environment_commit_id)

\* every row of the run's split is in the mapping the run loaded
AllRecordedBefore(r) ==
    \A j \in 1..Len(run[r].rows) :
        Maps(run[r].loaded, run[r].rows[j].instance_id,
             run[r].rows[j].environment_setup_commit,
             run[r].rows[j].env_image_key)

\* C15: with build runs one after the other, the mapping a run loads is
\* the persisted one, the file a completed run leaves holds every entry of
\* it unchanged, and a run whose rows were all recorded before leaves the
\* contents identical.
C15_EntriesKept ==
    \A r \in AllRuns :
        /\ run[r].pc = "loop" =>
              /\ file.state \in {"absent", "json"}
              /\ file.data = run[r].loaded
        /\ run[r].pc \in {"dump", "done"} =>
              Entries(run[r].loaded) \subseteq Entries(run[r].mem)
        /\ run[r].pc = "done" =>
              /\ file.state = "json"
              /\ Entries(run[r].loaded) \subseteq Entries(file.data)
              /\ AllRecordedBefore(r) => file.data = run[r].loaded

\* C15's case: a completed run over a split that holds a key persisted
\* before under another image name, and a new instance
C15_Witness ==
    /\ run["r1"].pc = "done"
    /\ \E j \in 1..Len(run["r1"].rows) :
          Conflicts(run["r1"].loaded, run["r1"].rows[j])
    /\ Entries(run["r1"].loaded) # Entries(file.data)

\* every failing entry of the partition is before every passing one
FailingFirst(partition) ==
    \A a, b \in 1..Len(partition) :
        (~partition[a][2] /\ partition[b][2]) => a < b

\* C16: in both partitions of the explanation the failing entries come
\* before the passing ones.
C16_FailingFirst ==
    (spc = "returned" /\ score.explanation.kind = "partitions") =>
        /\ FailingFirst(score.explanation.PASS_TO_PASS)
        /\ FailingFirst(score.explanation.FAIL_TO_PASS)

\* C16's case: the parser returned a passing PASS_TO_PASS test before a
\* failing one
C16_Witness ==
    /\ spc = "returned"
    /\ score.explanation.kind = "partitions"
    /\ Len(eval_output.tests) = 2
    /\ eval_output.tests[1][2] = "PASSED"
    /\ eval_output.tests[2][2] = "FAILED"
    /\ Keys(eval_output.tests) \subseteq metadata.PASS_TO_PASS
    /\ score.explanation.PASS_TO_PASS[1][2] = FALSE

\* C17: a Score returned for a stdout without signature has the two
\* partitions as its explanation, whatever its value; one returned for a
\* stdout with a signature has the report of the search with the raw
\* stdout, and value 0.0.
C17_ExplanationByPath ==
    spc = "returned" =>
        /\ ~HasSignature =>
              /\ score.explanation.kind = "partitions"
              /\ DOMAIN score.explanation =
                    {"kind", "PASS_TO_PASS", "FAIL_TO_PASS"}
        /\ HasSignature =>
              /\ score.value = 0
              /\ score.explanation.kind = "error_strings"
              /\ score.explanation.stdout = eval_output
              /\ \A x \in FailureSignatures :
                    score.explanation.search[x] = (x \in eval_output.sigs)

\* C17's case: a stdout with a signature and a failed FAIL_TO_PASS test in
\* the same text
C17_Witness ==
    /\ spc = "returned"
    /\ HasSignature
    /\ score.explanation.kind = "error_strings"
    /\ \E k \in 1..Len(eval_output.tests) :
          /\ eval_output.tests[k][1] \in metadata.FAIL_TO_PASS
          /\ eval_output.tests[k][2] = "FAILED"

(***************************************************************************)
(* Properties of the generated scripts                                     *)
(***************************************************************************)
\* the lines of a script that run a command, in order
Commands(script) ==
    LET Runs(line) == ~IsInert(line)
    IN  SelectSeq(script, Runs)

\* the places of the command lines in the script
CommandPlaces(script) == {k \in 1..Len(script) : ~IsInert(script[k])}

ApplyPlace(script) == CHOOSE k \in 1..Len(script) : IsApply(script[k])

\* C12: when git apply --check has failed in the eval script, git apply
\* has failed too and the stdout of the script holds a signature that the
\* scan of the scorer finds, so that the scorer takes the error branch.
C12_ApplyFailureClassified ==
    (sh.kind = "eval" /\ sh.status = "finished" /\ sh.check_failed) =>
        /\ ApplyPlace(sh.script) \in sh.failed
        /\ sh.stdout.sigs \cap FailureSignatures # {}
        /\ AnyErrorString(sh.stdout)

\* the steps of the eval script in the order the specification gives
EvalStepOrder(inputs) ==
    <<Line("cd", <<"/testbed">>),
      Line("source", <<"/opt/miniconda3/bin/activate">>),
      Line("conda", <<"activate", "testbed">>)>>
    \o [k \in 1..Len(inputs.spec.eval_commands) |->
           Line(inputs.spec.eval_commands[k], <<>>)]
    \o <<Line("cd", <<"/testbed">>),
         Line("source", <<"/opt/miniconda3/bin/activate">>),
         Line("conda", <<"activate", "testbed">>),
         Line("git", <<"checkout", inputs.base_commit>>
                         \o inputs.test_patch.files),
         Line("echo", <<inputs.test_patch.text, ">", "/tmp/test_patch.diff">>),
         Line("git", <<"apply", "--check", "/tmp/test_patch.diff">>),
         Line("git", <<"apply", "/tmp/test_patch.diff">>),
         Line(inputs.spec.test_cmd, inputs.test_patch.directives)>>

\* C18: the commands of the generated eval script are, in this order: cd
\* and activation, the eval setup commands, cd and activation again, the
\* checkout of the test files at base_commit, the patch written to
\* /tmp/test_patch.diff, git apply --check, git apply, the test command.
C18_EvalStepOrder ==
    sh.kind = "eval" => Commands(sh.script) = EvalStepOrder(sh.inputs)

\* C18's case: an eval script with repository setup commands
C18_Witness ==
    /\ sh.kind = "eval"
    /\ sh.inputs.spec.eval_commands # <<>>
    /\ Len(sh.inputs.test_patch.files) > 1

\* every command line of the script has run
AllRan == sh.ran = CommandPlaces(sh.script)

\* the steps that failed, by exit status or by an unset variable
Failures == sh.failed \cup sh.unbound

SetupStepOrder(inputs) ==
    <<Line("git", <<"clone", "-o", "origin", inputs.repo, "/testbed/">>),
      Line("chmod", <<"-R", "777", "/testbed/">>),
      Line("git", <<"reset", "--hard", inputs.base_commit>>),
      Line("git", <<"remote", "remove", "origin">>),
      Line(inputs.generic_install, <<>>)>>
    \o [k \in 1..Len(inputs.spec.pre_install) |->
           Line(inputs.spec.pre_install[k], <<>>)]
    \o (IF inputs.spec.install = "" THEN <<>>
        ELSE <<Line(inputs.spec.install, <<>>)>>)

\* the commands of a script other than cd
WithoutCd(script) ==
    LET NotCd(line) == line.cmd # "cd"
    IN  SelectSeq(Commands(script), NotCd)

C21_QuotingRoundTrip ==
    wr.pc = "written" => wr.content = wr.test_patch

(***************************************************************************)
(* Properties of value_to_float                                            *)
(***************************************************************************)
\* the configured values name different values for different credits
Unambiguous(config) ==
    /\ ~PyEq(config.correct, config.partial)
    /\ ~PyEq(config.correct, config.incorrect)
    /\ ~PyEq(config.correct, config.noanswer)
    /\ ~PyEq(config.partial, config.incorrect)
    /\ ~PyEq(config.partial, config.noanswer)

MatchesConfigured(config, value) ==
    \/ PyEq(value, config.correct)
    \/ PyEq(value, config.partial)
    \/ PyEq(value, config.incorrect)
    \/ PyEq(value, config.noanswer)

\* C22: for any configured values, the function value_to_float returns
\* maps a value equal to correct to 1.0, to partial to 0.5, to incorrect or
\* noanswer to 0, and a list or dict that matches none of them to 0.
C22_ConfiguredValuesMapped ==
    (vf.pc = "converted" /\ Unambiguous(vf.config)) =>
        /\ PyEq(vf.value, vf.config.correct) =>
              vf.result.raised = "none" /\ vf.result.halves = 2
        /\ PyEq(vf.value, vf.config.partial) =>
              vf.result.raised = "none" /\ vf.result.halves = 1
        /\ (PyEq(vf.value, vf.config.incorrect)
            \/ PyEq(vf.value, vf.config.noanswer)) =>
              vf.result.raised = "none" /\ vf.result.halves = 0
        /\ (vf.value.type \in {"list", "dict"}
            /\ ~MatchesConfigured(vf.config, vf.value)) =>
              vf.result.raised = "none" /\ vf.result.halves = 0

(***************************************************************************)
(* Properties of one scorer invocation                                     *)
(***************************************************************************)
\* the three sandbox commands of one invocation, in the order of the
\* specification
CommandOrder == <<"CREATE_MODEL_PATCH", "GET_AGENT_PATCH", "EVAL_SCRIPT">>

\* C23: the commands handed to the sandbox are the creation of model.patch,
\* the read of model.patch and the eval script, in this order and once
\* each whatever the exit statuses; and the Score returned, on the error
\* path as on the test path, carries the stdout of the read as model_patch.
C23_ThreeCommandsOnce ==
    /\ Len(execLog) <= 3
    /\ execLog = SubSeq(CommandOrder, 1, Len(execLog))
    /\ Len(exits) <= Len(execLog)
    /\ spc \in {"classify", "returned", "raised"} =>
          execLog = CommandOrder /\ Len(exits) = 3
    /\ spc = "returned" =>
          /\ score.metadata.model_patch = agent_patch
          /\ execLog = CommandOrder

\* C23's case: a Score returned on the error path after the eval script,
\* and the command that creates model.patch, exited with a status other
\* than 0
C23_Witness ==
    /\ spc = "returned"
    /\ exits[1] # 0
    /\ exits[3] # 0
    /\ score.explanation.kind = "error_strings"
    /\ score.metadata.model_patch # ""

(***************************************************************************)
(* Properties of a build run that meets a missing image                    *)
(***************************************************************************)
\* the run r is at the assertion of an instance of its split
AtAssertion(r) == run[r].pc = "loop" /\ run[r].idx <= Len(run[r].rows)

\* the image names the mapping d gained over the mapping b
NewImages(b, d) == {e[3] : e \in Entries(d) \ Entries(b)}

\* C24: a build run that comes to an instance whose image docker does not
\* list stops there with the assertion error, with the file as the run
\* found it; and an iteration records no entry whose image docker does not
\* list at that moment.
C24_AbsentImageIsFatal ==
    /\ [](\A r \in AllRuns :
            run[r].error = "AssertionError: not found" =>
                /\ run[r].pc = "failed"
                /\ run[r].rows[run[r].idx].env_image_key \notin images
                /\ file.state \in {"absent", "json"}
                /\ file.data = run[r].loaded)
    /\ [][\A r \in AllRuns :
            (AtAssertion(r) /\ run'[r] # run[r]) =>
                /\ run[r].rows[run[r].idx].env_image_key \notin images =>
                      /\ run'[r].pc = "failed"
                      /\ run'[r].error = "AssertionError: not found"
                      /\ run'[r].idx = run[r].idx
                      /\ file' = file
                /\ NewImages(run[r].mem, run'[r].mem) \subseteq images]_vars

\* C24's case: the run stopped at its second instance, after it had
\* recorded the first; the file still holds what an earlier run persisted
C24_Witness ==
    /\ run["r1"].pc = "failed"
    /\ run["r1"].error = "AssertionError: not found"
    /\ run["r1"].idx = 2
    /\ run["r1"].mem # run["r1"].loaded
    /\ file.state = "json"
    /\ file.data = run["r1"].loaded
    /\ file.data # EmptyDict

(***************************************************************************)
(* Properties of the scorer on an empty parse                              *)
(***************************************************************************)
\* C25: when the stdout holds no signature and the parser returns no test
\* result at all, both partitions of the returned Score are empty and its
\* value is 1.0, whatever PASS_TO_PASS and FAIL_TO_PASS hold.
C25_NoResultsScoresOne ==
    (spc = "returned" /\ ~HasSignature /\ eval_output.tests = <<>>) =>
        /\ score.explanation.kind = "partitions"
        /\ score.explanation.PASS_TO_PASS = <<>>
        /\ score.explanation.FAIL_TO_PASS = <<>>
        /\ score.value = 1

\* C25's case: a Score returned for a sample with tests in both sets and a
\* parse without any result
C25_Witness ==
    /\ spc = "returned"
    /\ ~HasSignature
    /\ eval_output.tests = <<>>
    /\ metadata.PASS_TO_PASS # {}
    /\ metadata.FAIL_TO_PASS # {}
    /\ score.value = 1

====
